---- MODULE Spec2Model ----
(***************************************************************************)
(* livecam.js: GstLaunch (executable discovery and version query),         *)
(* GstLiveCamServer (pipeline command builder), SocketCamWrapper (TCP to   *)
(* Socket.IO relay) and LiveCam (orchestrator).                            *)
(*                                                                         *)
(* src/livecam.js holds two definitions of every class (lines 1-419 and    *)
(* lines 421-834).  The variable `variant` says which one is loaded.       *)
(***************************************************************************)
EXTENDS Integers, Sequences, FiniteSets, TLC

VARIABLES
    variant,          \* 1: definitions of lines 1-419, 2: definitions of lines 421-834
    hostCatches,      \* the embedding program handles 'uncaughtException'
    env,              \* the host: platform, PATH, installation roots, version output
    config,           \* the argument of new LiveCam( config )
    lc,               \* the LiveCam instance
    gst_cam_server,   \* this.gst_cam_server (GstLiveCamServer)
    gst_cam_process,  \* this.gst_cam_process (child process handle)
    gst_cam_wrap,     \* this.gst_cam_wrap (SocketCamWrapper)
    launch,           \* result of the latest GstLaunch query made by a caller
    raised,           \* error that left the latest call or callback ("" if none)
    alive,            \* the node process is running
    stdoutSeen,       \* stdout 'data' chunks of the child delivered so far
    calls,            \* log of wrap() and start() invocations, in order
    sockets,          \* source TCP sockets, one per wrap() call
    servers,          \* push-channel servers created, one per connect callback
    dicers,           \* multipart parsers, one per connect callback
    subs,             \* subscribers of the push channel
    published,        \* payloads of the "image" events emitted, in order
    source,           \* the multipart stream the child sends
    stdout,           \* the child's standard output so far, as one stream of tokens
    console,          \* the latest line a callback wrote with console.log
    spawnCall         \* the latest direct call of GstLaunch.spawnPipeline

vars == << variant, hostCatches, env, config, lc, gst_cam_server, gst_cam_process,
           gst_cam_wrap, launch, raised, alive, stdoutSeen, calls, sockets,
           servers, dicers, subs, published, source, stdout, console, spawnCall >>

(***************************************************************************)
(* JavaScript values: a type tag, a number and a string.                   *)
(***************************************************************************)
Undef == [t |-> "undefined", n |-> 0, s |-> ""]
Num(i) == [t |-> "number", n |-> i, s |-> ""]
Str(x) == [t |-> "string", n |-> 0, s |-> x]
Bool(b) == [t |-> "boolean", n |-> IF b THEN 1 ELSE 0, s |-> ""]
Fn == [t |-> "function", n |-> 0, s |-> "callback"]

\* ToBoolean
Truthy(v) ==
    CASE v.t = "undefined" -> FALSE
      [] v.t = "number" -> v.n # 0
      [] v.t = "string" -> v.s # ""
      [] v.t = "boolean" -> v.n = 1
      [] OTHER -> TRUE

\* a || b
Or(a, b) == IF Truthy(a) THEN a ELSE b

\* typeof( v ), a string value
TypeOf(v) == Str(v.t)

\* v > 0 (abstract relational comparison with ToNumber; other strings are NaN)
GreaterThanZero(v) ==
    CASE v.t = "number" -> v.n > 0
      [] v.t = "boolean" -> v.n = 1
      [] OTHER -> FALSE

\* '' + parseInt( v ): the strings of the model hold no leading digits
ParseIntText(v) == IF v.t = "number" THEN ToString(v.n) ELSE "NaN"

\* '' + v
Text(v) ==
    CASE v.t = "number" -> ToString(v.n)
      [] v.t = "string" -> v.s
      [] v.t = "boolean" -> (IF v.n = 1 THEN "true" ELSE "false")
      [] v.t = "undefined" -> "undefined"
      [] OTHER -> "function"

\* Outcome of a call: the error thrown ("" if it returned) and the value returned
Ret(x) == [threw |-> "", val |-> x]
Throw(e) == [threw |-> e, val |-> Undef]

\* Assert.ok( value, message ): passes iff value is truthy
AssertOk(value, message) == Truthy(value)

(***************************************************************************)
(* The host environment read by GstLaunch.                                 *)
(*   dirs[i]   : FS.accessSync succeeds for the executable in PATH entry i *)
(*   root64/32 : GSTREAMER_1_0_ROOT_X86_64 / _X86: "unset", or set to an   *)
(*               installation root whose bin holds the executable          *)
(*               ("present") or not ("missing")                            *)
(*   out       : stdout of `gst-launch-1.0 --version` run synchronously    *)
(***************************************************************************)
MaxPathDirs == 2

Platforms == {"linux", "win32", "darwin", "other"}
Archs == {"x64", "ia32"}
RootStates == {"unset", "missing", "present"}
\* "null": no stdout (spawn failed); "empty": nothing written before the timeout;
\* "other": text without "GStreamer"; "bare": "GStreamer" with nothing after it;
\* "version": "... GStreamer 1.16.2 ..."
Outputs == {"null", "empty", "other", "bare", "version"}

RECURSIVE SeqsUpTo(_, _)
SeqsUpTo(S, n) ==
    IF n = 0 THEN {<< >>}
    ELSE LET shorter == SeqsUpTo(S, n - 1)
         IN  shorter \cup {Append(q, x) : q \in shorter, x \in S}

AllEnvs ==
    {e \in [platform : Platforms, pathSet : BOOLEAN,
            dirs : SeqsUpTo(BOOLEAN, MaxPathDirs),
            root64 : RootStates, root32 : RootStates, arch : Archs,
            darwinBin : BOOLEAN, out : Outputs] :
        ~e.pathSet => e.dirs = << >>}      \* no PATH, no entries

gst_launch_executable == "gst-launch-1.0"

\* for( index ... ) { try { ... FS.accessSync( bin ); detected_path = bin } catch {} }
\* resolves: the identifier naming the executable is in scope in the loop body
RECURSIVE ScanPath(_, _, _, _)
ScanPath(dirs, index, resolves, detected_path) ==
    IF index > Len(dirs) THEN detected_path
    ELSE ScanPath(dirs, index + 1, resolves,
                  IF resolves /\ dirs[index]
                  THEN Str("PATH[" \o ToString(index) \o "]/" \o gst_launch_executable)
                  ELSE detected_path)

\* GstLaunch.getPath, first definition
getPath1(e) ==
    IF ~e.pathSet THEN Throw("TypeError")     \* process.env.PATH is undefined
    ELSE Ret(ScanPath(e.dirs, 1, TRUE, Undef))

\* The installation root picked on win32 ("unset" when none is)
Win32Root(e) ==
    LET x64 == e.root64 # "unset"
        x32 == e.root32 # "unset"
    IN  IF x64 /\ x32
        THEN (IF e.arch = "x64" THEN "root64"
              ELSE IF e.arch = "x32" THEN "root32" ELSE "unset")
        ELSE IF x64 THEN "root64" ELSE IF x32 THEN "root32" ELSE "unset"

\* GstLaunch.getPath, second definition: the PATH loops name the bare identifier
\* gst_launch_executable, which is not declared, so every iteration throws
\* a ReferenceError into the loop's own catch
getPath2(e) ==
    CASE e.platform = "win32" ->
            LET root == Win32Root(e)
            IN  IF root # "unset"
                THEN (IF e[root] = "present"
                      THEN Ret(Str(root \o "/bin/" \o gst_launch_executable \o ".exe"))
                      ELSE Ret(Undef))
                ELSE IF ~e.pathSet THEN Throw("TypeError")
                ELSE Ret(ScanPath(e.dirs, 1, FALSE, Undef))
      [] e.platform = "linux" ->
            IF ~e.pathSet THEN Throw("TypeError")
            ELSE Ret(ScanPath(e.dirs, 1, FALSE, Undef))
      [] e.platform = "darwin" ->
            IF e.darwinBin THEN Ret(Str("/usr/local/bin/gst-launch-1.0")) ELSE Ret(Undef)
      [] OTHER -> Ret(Undef)

getPath(v, e) == IF v = 1 THEN getPath1(e) ELSE getPath2(e)

\* The body of the try block of getVersion
getVersionTry(v, e) ==
    LET gst_launch_path == getPath(v, e)
    IN  IF gst_launch_path.threw # "" THEN gst_launch_path
        ELSE IF ~AssertOk(TypeOf(gst_launch_path.val), Str("string"))
        THEN Throw("AssertionError")
        ELSE IF gst_launch_path.val.t # "string"
        THEN Throw("TypeError")               \* SpawnSync( undefined, ... )
        ELSE CASE e.out = "null" -> Ret(Undef)      \* output is null
               [] e.out = "empty" -> Ret(Undef)     \* no 'GStreamer' in it
               [] e.out = "other" -> Ret(Undef)
               [] e.out = "bare" -> Throw("TypeError")   \* match(...) is null
               [] OTHER -> Ret(Str("1.16.2"))

getVersionNoCatch(v, e) == getVersionTry(v, e)
\* GstLaunch.getVersion: try { ... } catch( ex ) { version_str = undefined }
getVersion(v, e) ==
    LET r == getVersionTry(v, e)
    IN  IF r.threw # "" THEN Ret(Undef) ELSE r

isAvailablePathOnly(v, e) ==
    LET r == getPath(v, e)
    IN  IF r.threw # "" THEN r ELSE Ret(Bool(r.val # Undef))
\* GstLaunch.isAvailable
isAvailable(v, e) ==
    LET r == getVersion(v, e)
    IN  IF r.threw # "" THEN r ELSE Ret(Bool(r.val # Undef))

(***************************************************************************)
(* Strings that become argument lists are sequences of tokens: a token is  *)
(* one space character (SP) or a run of characters without a space.        *)
(***************************************************************************)
SP == " "
BANG == <<SP, "!", SP>>

\* A split that drops the empty words between consecutive spaces
SplitSkipEmpty(str) ==
    LET Words[i \in 0..Len(str)] ==
            IF i = 0 THEN <<"">>
            ELSE IF str[i] = " " THEN Words[i - 1] \o <<"">>
            ELSE [Words[i - 1] EXCEPT ![Len(Words[i - 1])] = @ \o str[i]]
    IN  SelectSeq(Words[Len(str)], LAMBDA w : w # "")

\* pipeline.split( ' ' )
RECURSIVE SplitFrom(_, _, _)
SplitFrom(str, i, word) ==
    IF i > Len(str) THEN <<word>>
    ELSE IF str[i] = SP THEN <<word>> \o SplitFrom(str, i + 1, "")
    ELSE SplitFrom(str, i + 1, word \o str[i])
Split(str) == SplitFrom(str, 1, "")

\* GstLaunch.spawnPipeline
spawnPipeline(v, e, pipeline) ==
    LET avail == isAvailable(v, e)
        gst_launch_path == getPath(v, e)
    IN  IF ~AssertOk(Str("string"), Str("string"))    \* typeof( pipeline )
        THEN Throw("AssertionError")
        ELSE IF avail.threw # "" THEN Throw(avail.threw)
        ELSE IF ~AssertOk(avail.val, Str("gst-launch is not available."))
        THEN Throw("AssertionError")
        ELSE IF gst_launch_path.threw # "" THEN Throw(gst_launch_path.threw)
        ELSE Ret([spawned |-> TRUE, file |-> gst_launch_path.val,
                  argv |-> Split(pipeline)])

\* No direct call made yet
NoSpawn == [called |-> FALSE, threw |-> "", pipeline |-> << >>, children |-> << >>,
            returned |-> Undef]

(***************************************************************************)
(* GstLiveCamServer                                                        *)
(***************************************************************************)
\* obj.name for a value that may not be an object
Get(obj, name) == IF obj.t = "object" THEN obj[name] ELSE Undef

\* {}
EmptyWebcam ==
    [t |-> "object", fake |-> Undef, width |-> Undef, height |-> Undef,
     framerate |-> Undef, grayscale |-> Undef, deviceIndex |-> Undef]

NoServer ==
    [made |-> FALSE, fake |-> Undef, width |-> Undef, height |-> Undef,
     framerate |-> Undef, grayscale |-> Undef, deviceIndex |-> Undef,
     gst_multipart_boundary |-> "", gst_video_src |-> << >>]

\* The source clause
SourceClause(v, fake) ==
    IF ~Truthy(fake)
    THEN (IF v = 1 THEN <<"v4l2src", SP, "!", SP, "decodebin">>
          ELSE <<"-v", SP, "ksvideosrc", SP, "do-stats=TRUE">>)
    ELSE <<"videotestsrc">>

ScaleClause(width, height) ==
    BANG \o <<"videoscale">> \o BANG
         \o <<"video/x-raw,width=" \o ParseIntText(width)
                \o ",height=" \o ParseIntText(height)>>

RateClause(framerate) ==
    BANG \o <<"videorate">> \o BANG
         \o <<"video/x-raw,framerate=" \o ParseIntText(framerate) \o "/1">>

GrayClause ==
    BANG \o <<"videobalance", SP, "saturation=0.0">> \o BANG \o <<"videoconvert">>

\* The constructor with the scale clause only when both dimensions are positive
BuildVideoSrcBothPositive(v, fake, width, height, framerate, grayscale) ==
    SourceClause(v, fake)
        \o (IF GreaterThanZero(width) /\ GreaterThanZero(height)
            THEN ScaleClause(width, height) ELSE << >>)
        \o (IF GreaterThanZero(framerate) THEN RateClause(framerate) ELSE << >>)
        \o (IF Truthy(grayscale) THEN GrayClause ELSE << >>)

\* The constructor with a grayscale flag that also drops the rate clause
BuildVideoSrcGrayDropsRate(v, fake, width, height, framerate, grayscale) ==
    SourceClause(v, fake)
        \o (IF GreaterThanZero(width) \/ GreaterThanZero(height)
            THEN ScaleClause(width, height) ELSE << >>)
        \o (IF GreaterThanZero(framerate) /\ ~Truthy(grayscale)
            THEN RateClause(framerate) ELSE << >>)
        \o (IF Truthy(grayscale) THEN GrayClause ELSE << >>)

\* The if statements of the constructor that build this.gst_video_src
BuildVideoSrc(v, fake, width, height, framerate, grayscale) ==
    LET s0 == SourceClause(v, fake)
        s1 == IF GreaterThanZero(width) \/ GreaterThanZero(height)
              THEN s0 \o ScaleClause(width, height) ELSE s0
        s2 == IF GreaterThanZero(framerate) THEN s1 \o RateClause(framerate) ELSE s1
        s3 == IF Truthy(grayscale) THEN s2 \o GrayClause ELSE s2
    IN  s3

\* new GstLiveCamServer( config )
GstLiveCamServer(v, cfg) ==
    LET c == IF Truthy(cfg) THEN cfg ELSE EmptyWebcam
        fake == Or(Get(c, "fake"), Bool(FALSE))
        width == Or(Get(c, "width"), Num(800))
        height == Or(Get(c, "height"), Num(600))
        framerate == Or(Get(c, "framerate"), Num(30))
        grayscale == Or(Get(c, "grayscale"), Bool(FALSE))
        deviceIndex == Or(Get(c, "deviceIndex"), Num(-1))
    IN  IF ~(/\ AssertOk(TypeOf(c), Str("object"))
             /\ AssertOk(TypeOf(fake), Str("boolean"))
             /\ AssertOk(TypeOf(width), Str("number"))
             /\ AssertOk(TypeOf(height), Str("number"))
             /\ AssertOk(TypeOf(framerate), Str("number"))
             /\ AssertOk(TypeOf(grayscale), Str("boolean")))
        THEN Throw("AssertionError")
        ELSE Ret([made |-> TRUE, fake |-> fake, width |-> width, height |-> height,
                  framerate |-> framerate, grayscale |-> grayscale,
                  deviceIndex |-> deviceIndex,
                  gst_multipart_boundary |-> "--videoboundary",
                  gst_video_src |->
                      BuildVideoSrc(v, fake, width, height, framerate, grayscale)])

\* cam_pipeline of GstLiveCamServer.start
CamPipeline(server, tcp_addr, tcp_port) ==
    server.gst_video_src \o BANG \o <<"jpegenc">> \o BANG
        \o <<"multipartmux", SP, SP,
             "boundary=\"" \o server.gst_multipart_boundary \o "\"">>
        \o BANG
        \o <<"tcpserversink", SP, "host=" \o Text(tcp_addr), SP, "port=" \o Text(tcp_port)>>

\* GstLiveCamServer.start
start(v, e, server, tcp_addr, tcp_port) ==
    LET avail == isAvailable(v, e)
    IN  IF ~(AssertOk(TypeOf(tcp_addr), Str("string"))
             /\ AssertOk(TypeOf(tcp_port), Str("number")))
        THEN Throw("AssertionError")
        ELSE IF avail.threw # "" THEN Throw(avail.threw)
        ELSE IF Truthy(avail.val)
        THEN spawnPipeline(v, e, CamPipeline(server, tcp_addr, tcp_port))
        ELSE Throw("Error: GstLaunch not found.")

(***************************************************************************)
(* LiveCam                                                                 *)
(***************************************************************************)
UndefWebcam ==
    [t |-> "undefined", fake |-> Undef, width |-> Undef, height |-> Undef,
     framerate |-> Undef, grayscale |-> Undef, deviceIndex |-> Undef]

\* {} as the argument of new LiveCam
EmptyConfig ==
    [t |-> "object", gst_addr |-> Undef, gst_port |-> Undef,
     gst_tcp_addr |-> Undef, gst_tcp_port |-> Undef,
     ui_addr |-> Undef, ui_port |-> Undef,
     broadcast_addr |-> Undef, broadcast_port |-> Undef,
     start |-> Undef, webcam |-> UndefWebcam]

NoInstance ==
    [st |-> "none", gst_tcp_addr |-> Undef, gst_tcp_port |-> Undef,
     ui_addr |-> Undef, ui_port |-> Undef,
     broadcast_addr |-> Undef, broadcast_port |-> Undef,
     start |-> Undef, webcam |-> UndefWebcam]

\* if( x ) Assert.ok( typeof( x ), type )
AssertIfSet(x, type) == Truthy(x) => AssertOk(TypeOf(x), Str(type))

\* new LiveCam( config )
LiveCam(v, e, cfg) ==
    LET c == IF Truthy(cfg) THEN cfg ELSE EmptyConfig
        this == [st |-> "ok",
                 gst_tcp_addr |-> Or(Get(c, "gst_addr"), Str("127.0.0.1")),
                 gst_tcp_port |-> Or(Get(c, "gst_port"), Num(10000)),
                 ui_addr |-> Or(Get(c, "ui_addr"), Str("127.0.0.1")),
                 ui_port |-> Or(Get(c, "ui_port"), Num(11000)),
                 broadcast_addr |-> Or(Get(c, "broadcast_addr"), Str("127.0.0.1")),
                 broadcast_port |-> Or(Get(c, "broadcast_port"), Num(12000)),
                 start |-> Get(c, "start"),
                 webcam |-> IF c.t = "object" /\ Truthy(c.webcam)
                            THEN c.webcam ELSE EmptyWebcam]
        avail == isAvailable(v, e)
    IN  IF ~(/\ AssertOk(TypeOf(c), Str("object"))
             /\ AssertIfSet(this.start, "function")
             /\ AssertIfSet(this.broadcast_port, "number")
             /\ AssertIfSet(this.broadcast_addr, "string")
             /\ AssertIfSet(this.ui_port, "number")
             /\ AssertIfSet(this.ui_addr, "string")
             /\ AssertIfSet(this.gst_tcp_port, "number")
             /\ AssertIfSet(this.gst_tcp_addr, "string")
             /\ AssertIfSet(this.webcam, "object"))
        THEN Throw("AssertionError")
        ELSE IF avail.threw # "" THEN Throw(avail.threw)
        ELSE IF ~Truthy(avail.val) THEN Throw("Error: Unable to broadcast.")
        ELSE Ret(this)

NoProcess == [spawned |-> FALSE, file |-> Undef, argv |-> << >>]
NoWrap == [made |-> FALSE, gst_multipart_boundary |-> "", lastImage |-> << >>]
\* new SocketCamWrapper()
SocketCamWrapper == [made |-> TRUE, gst_multipart_boundary |-> "--videoboundary",
                     lastImage |-> << >>]

relayVars == << stdoutSeen, calls, sockets, servers, dicers, subs, published, source >>

\* The caller runs new LiveCam( config )
Construct ==
    /\ alive
    /\ lc.st # "ok"
    /\ LET r == LiveCam(variant, env, config)
       IN  /\ lc' = IF r.threw = "" THEN r.val ELSE [NoInstance EXCEPT !.st = "threw"]
           /\ raised' = r.threw
    /\ UNCHANGED << stdout, console, spawnCall,
                    variant, hostCatches, env, config, gst_cam_server, gst_cam_process,
                    gst_cam_wrap, launch, alive, relayVars >>

\* An error left a callback of the event loop: 'uncaughtException'
Uncaught(err) == IF err = "" THEN alive ELSE hostCatches

\* LiveCam.broadcast up to the return of this.gst_cam_server.start
Broadcast ==
    /\ alive
    /\ lc.st = "ok"
    /\ ~gst_cam_process.spawned
    /\ gst_cam_wrap' = SocketCamWrapper
    /\ LET made == GstLiveCamServer(variant, lc.webcam)
           r == IF made.threw # "" THEN made
                ELSE start(variant, env, made.val, lc.gst_tcp_addr, lc.gst_tcp_port)
       IN  /\ gst_cam_server' = IF made.threw = "" THEN made.val ELSE gst_cam_server
           /\ gst_cam_process' = IF r.threw = "" THEN r.val ELSE gst_cam_process
           /\ raised' = r.threw
    /\ UNCHANGED << stdout, console, spawnCall,
                    variant, hostCatches, env, config, lc, launch, alive, relayVars >>

(***************************************************************************)
(* The child's standard output: a chunk is a sequence of tokens.           *)
(***************************************************************************)
MaxStdoutChunks == 2
MaxChunkTokens == 2

StdoutTokens == {"Setting pipeline to ", "PLAYING"}
Marker == <<"Setting pipeline to ", "PLAYING">>
StdoutChunks == SeqsUpTo(StdoutTokens, MaxChunkTokens) \ {<< >>}

\* data.toString().includes( text )
Includes(data, text) ==
    \E i \in 0..(Len(data) - Len(text)) :
        \A j \in 1..Len(text) : data[i + j] = text[j]

\* this.start, as the stdout handler of the loaded definition names it:
\* the first definition reads the undeclared identifier start
StartRef(v, this) == IF v = 1 THEN Throw("ReferenceError") ELSE Ret(this.start)

\* The calls made by `if( start ) start();`
CallStart(v, this) ==
    LET ref == StartRef(v, this)
    IN  IF ref.threw # "" THEN [threw |-> ref.threw, made |-> << >>]
        ELSE IF ~Truthy(ref.val) THEN [threw |-> "", made |-> << >>]
        ELSE IF ref.val.t # "function" THEN [threw |-> "TypeError", made |-> << >>]
        ELSE [threw |-> "", made |-> <<"start">>]

\* this.socket = Net.Socket(); this.socket.connect( ... ): the socket, and whether
\* it delivers the part now in transit
NewSocket == [st |-> "connecting", flowing |-> FALSE]

\* gst_cam_process.stdout.on( 'data', ... )
StdoutData(data) ==
    /\ alive
    /\ gst_cam_process.spawned
    /\ Len(stdoutSeen) < MaxStdoutChunks
    /\ stdoutSeen' = Append(stdoutSeen, Includes(data, Marker))
    /\ stdout' = stdout \o data
    /\ IF Includes(data, Marker)
       THEN LET cb == CallStart(variant, lc)
            IN  /\ sockets' = Append(sockets, NewSocket)        \* wrap()
                /\ calls' = calls \o <<"wrap">> \o cb.made
                /\ raised' = cb.threw
                /\ alive' = Uncaught(cb.threw)
       ELSE /\ raised' = ""
            /\ UNCHANGED << sockets, calls, alive >>
    /\ UNCHANGED << console, spawnCall,
                    variant, hostCatches, env, config, lc, gst_cam_server,
                    gst_cam_process, gst_cam_wrap, launch, servers, dicers, subs,
                    published, source >>

\* A listener that clears the handle when the child exits, as a restart would
AfterChildEventRestart(kind, process) == IF kind = "exit" THEN NoProcess ELSE process
\* this.gst_cam_process after a stderr 'data', 'error' or 'exit' listener ran: the
\* listeners assign nothing
AfterChildEvent(kind, process) == process

\* gst_cam_process.stderr.on( 'data', ... ): the body is commented out
StderrData ==
    /\ alive
    /\ gst_cam_process.spawned
    /\ gst_cam_process' = AfterChildEvent("stderr", gst_cam_process)
    /\ UNCHANGED << stdout, console, spawnCall, variant, hostCatches, env, config, lc,
                    gst_cam_server, gst_cam_wrap, launch, raised, alive, relayVars >>

\* gst_cam_process.on( 'error', ... )
ProcessError ==
    /\ alive
    /\ gst_cam_process.spawned
    /\ console' = "Webcam server error"
    /\ gst_cam_process' = AfterChildEvent("error", gst_cam_process)
    /\ raised' = ""
    /\ UNCHANGED << stdout, spawnCall, variant, hostCatches, env, config, lc,
                    gst_cam_server, gst_cam_wrap, launch, alive, relayVars >>

\* gst_cam_process.on( 'exit', ... )
ProcessExit ==
    /\ alive
    /\ gst_cam_process.spawned
    /\ console' = "Webcam server exited"
    /\ gst_cam_process' = AfterChildEvent("exit", gst_cam_process)
    /\ raised' = ""
    /\ UNCHANGED << stdout, spawnCall, variant, hostCatches, env, config, lc,
                    gst_cam_server, gst_cam_wrap, launch, alive, relayVars >>

(***************************************************************************)
(* SocketCamWrapper: the relay                                             *)
(*                                                                         *)
(* The child's tcpserversink sends every buffer (one multipart part) to    *)
(* every client connected when the buffer is pushed, so the sockets that   *)
(* are open carry the same parts.  source.cur holds the bytes of the part  *)
(* now in transit, source.parts the parts that at least one parser read    *)
(* from their first byte to their boundary.                                *)
(***************************************************************************)
MaxParts == 2
MaxPartLen == 3
MaxDataLen == 2

Subscribers == {"s1", "s2"}

\* Byte j of the p-th part the source sends
SourceByte(p, j) == (77 + 89 * p + 151 * j) % 256

\* Base64 symbols are alphabet indices 0..63; PAD is '='
PAD == 64

\* The base64 text of one, two or three bytes
Encode3(b) ==
    CASE Len(b) = 3 -> << b[1] \div 4, (b[1] % 4) * 16 + b[2] \div 16,
                          (b[2] % 16) * 4 + b[3] \div 64, b[3] % 64 >>
      [] Len(b) = 2 -> << b[1] \div 4, (b[1] % 4) * 16 + b[2] \div 16,
                          (b[2] % 16) * 4, PAD >>
      [] Len(b) = 1 -> << b[1] \div 4, (b[1] % 4) * 16, PAD, PAD >>
      [] OTHER -> << >>

\* buf.toString( 'base64' )
RECURSIVE ToBase64(_)
ToBase64(buf) ==
    IF Len(buf) <= 3 THEN Encode3(buf)
    ELSE Encode3(SubSeq(buf, 1, 3)) \o ToBase64(SubSeq(buf, 4, Len(buf)))

\* The string decoder that part.setEncoding( 'base64' ) installs, on one chunk:
\* the text of the complete 3-byte groups, the other bytes kept for the next chunk
DecoderWrite(pend, data) ==
    LET buf == pend \o data
        keep == Len(buf) % 3
    IN  [text |-> ToBase64(SubSeq(buf, 1, Len(buf) - keep)),
         pend |-> SubSeq(buf, Len(buf) - keep + 1, Len(buf))]

\* The decoder at the end of the part: the text of the bytes kept
DecoderEnd(pend) == ToBase64(pend)

\* new Dicer( ... ) and this.socket.pipe( this.dicer ): the parser reads socket
\* src; it is in a part (synced) once it has seen a boundary
NewDicer(src, synced) ==
    [src |-> src, synced |-> synced, pend |-> << >>, frameEncoded |-> << >>]

OnConnectionReplay(log) ==
    IF log = << >> THEN << >> ELSE <<[n |-> Len(log), data |-> log[Len(log)]]>>
\* What the push-channel server sends a socket when it connects: the server is
\* created with no 'connection' listener
OnConnection(log) == << >>

\* Socket i delivers the part now in transit
Flows(i) == sockets[i].st = "open" /\ sockets[i].flowing

\* The callback of this.socket.connect for socket i.  this.socket is the socket of
\* the latest wrap() call.
SocketConnect(i) ==
    /\ alive
    /\ i \in 1..Len(sockets)
    /\ sockets[i].st = "connecting"
    /\ sockets' = [sockets EXCEPT ![i] = [st |-> "open", flowing |-> source.cur = << >>]]
    /\ servers' = Append(servers,
                         IF \E k \in 1..Len(servers) : servers[k] = "listening"
                         THEN "failing" ELSE "listening")
    /\ LET latest == Len(sockets)
       IN  dicers' = Append(dicers,
                            NewDicer(latest,
                                     ~(latest # i /\ Flows(latest)
                                         /\ source.cur # << >>)))
    /\ raised' = ""
    /\ UNCHANGED << stdout, console, spawnCall,
                    variant, hostCatches, env, config, lc, gst_cam_server,
                    gst_cam_process, gst_cam_wrap, launch, alive, stdoutSeen, calls,
                    subs, published, source >>

\* 'error' of an http server whose listen found the address in use: no listener
ServerError(k) ==
    /\ alive
    /\ k \in 1..Len(servers)
    /\ servers[k] = "failing"
    /\ servers' = [servers EXCEPT ![k] = "failed"]
    /\ raised' = "Error: listen EADDRINUSE"
    /\ alive' = Uncaught("Error: listen EADDRINUSE")
    /\ UNCHANGED << stdout, console, spawnCall,
                    variant, hostCatches, env, config, lc, gst_cam_server,
                    gst_cam_process, gst_cam_wrap, launch, stdoutSeen, calls, sockets,
                    dicers, subs, published, source >>

\* The source connection of socket i ends: the pipe ends the parser fed by it
\* ('finish') and the socket emits 'close'; the listeners, attached in a connect
\* callback to the socket that was this.socket then, write one line each
SocketClose(i) ==
    /\ alive
    /\ i \in 1..Len(sockets)
    /\ sockets[i].st = "open"
    /\ sockets' = [sockets EXCEPT ![i] = [st |-> "closed", flowing |-> FALSE]]
    /\ console' = IF \E k \in 1..Len(dicers) : dicers[k].src = i
                  THEN "Socket closed" ELSE console
    /\ raised' = ""
    /\ UNCHANGED << stdout, spawnCall, variant, hostCatches, env, config, lc,
                    gst_cam_server, gst_cam_process, gst_cam_wrap, launch, alive,
                    stdoutSeen, calls, servers, dicers, subs, published, source >>

\* The connection of socket i is refused: the socket emits 'error', for which
\* wrap() attaches no listener
SocketFail(i) ==
    /\ alive
    /\ i \in 1..Len(sockets)
    /\ sockets[i].st = "connecting"
    /\ sockets' = [sockets EXCEPT ![i] = [st |-> "failed", flowing |-> FALSE]]
    /\ raised' = "Error: connect ECONNREFUSED"
    /\ alive' = Uncaught("Error: connect ECONNREFUSED")
    /\ UNCHANGED << stdout, console, spawnCall, variant, hostCatches, env, config, lc,
                    gst_cam_server, gst_cam_process, gst_cam_wrap, launch,
                    stdoutSeen, calls, servers, dicers, subs, published, source >>

\* A client connects to the push channel
SubConnect(s) ==
    /\ alive
    /\ subs[s].st = "away"
    /\ \E k \in 1..Len(servers) :
          /\ servers[k] = "listening"
          /\ subs' = [subs EXCEPT ![s] = [st |-> "on", server |-> k,
                                          joined |-> Len(published),
                                          inbox |-> OnConnection(published)]]
    /\ UNCHANGED << stdout, console, spawnCall,
                    variant, hostCatches, env, config, lc, gst_cam_server,
                    gst_cam_process, gst_cam_wrap, launch, raised, alive, stdoutSeen,
                    calls, sockets, servers, dicers, published, source >>

\* this.io, as the part 'end' handler of the loaded definition names it: the first
\* definition reads the undeclared identifier io
IoRef(v) == IF v = 1 THEN Throw("ReferenceError") ELSE Ret(Num(Len(servers)))

\* this.io.sockets: the sockets now connected to that server
Sockets(io) == {s \in Subscribers : subs[s].st = "on" /\ subs[s].server = io}

\* Parser k receives what the source sends
Reads(k) == Flows(dicers[k].src)

\* The frames that complete when the source reaches a boundary: one for each
\* parser that is in a part, the decoder's last text appended
RECURSIVE FramesEnded(_)
FramesEnded(k) ==
    IF k > Len(dicers) THEN << >>
    ELSE (IF Reads(k) /\ dicers[k].synced
          THEN <<dicers[k].frameEncoded \o DecoderEnd(dicers[k].pend)>>
          ELSE << >>) \o FramesEnded(k + 1)

\* The events delivered by emitting frames after `sent` earlier emissions
Events(frames, sent) == [j \in 1..Len(frames) |-> [n |-> sent + j, data |-> frames[j]]]

\* The next n bytes of the part in transit
NextBytes(n) ==
    [j \in 1..n |-> SourceByte(Len(source.parts) + 1, Len(source.cur) + j)]

SomeoneListens == \E k \in 1..Len(dicers) : sockets[dicers[k].src].st = "open"

\* part.on( 'data', ... ): n more bytes of the current part arrive
PartData(n) ==
    /\ alive
    /\ SomeoneListens
    /\ Len(source.parts) < MaxParts
    /\ Len(source.cur) + n <= MaxPartLen
    /\ source' = [source EXCEPT !.cur = @ \o NextBytes(n)]
    /\ dicers' = [k \in 1..Len(dicers) |->
                    IF Reads(k) /\ dicers[k].synced
                    THEN LET w == DecoderWrite(dicers[k].pend, NextBytes(n))
                         IN  [dicers[k] EXCEPT !.pend = w.pend,
                                               !.frameEncoded = @ \o w.text]
                    ELSE dicers[k]]
    /\ raised' = ""
    /\ UNCHANGED << stdout, console, spawnCall,
                    variant, hostCatches, env, config, lc, gst_cam_server,
                    gst_cam_process, gst_cam_wrap, launch, alive, stdoutSeen, calls,
                    sockets, servers, subs, published >>

\* part.on( 'end', ... ): the boundary that ends the current part arrives
PartEnd ==
    /\ alive
    /\ SomeoneListens
    /\ Len(source.parts) < MaxParts
    /\ LET frames == FramesEnded(1)
           io == IoRef(variant)
       IN  /\ source' = [parts |-> IF frames = << >> THEN source.parts
                                   ELSE Append(source.parts, source.cur),
                         cur |-> << >>]
           /\ IF frames = << >>
              THEN /\ raised' = ""
                   /\ UNCHANGED << alive, published, subs, gst_cam_wrap >>
              ELSE IF io.threw # ""
              THEN /\ raised' = io.threw
                   /\ alive' = Uncaught(io.threw)
                   /\ UNCHANGED << published, subs, gst_cam_wrap >>
              ELSE /\ published' = published \o frames
                   /\ subs' = [s \in Subscribers |->
                                 IF s \in Sockets(io.val.n)
                                 THEN [subs[s] EXCEPT
                                         !.inbox = @ \o Events(frames, Len(published))]
                                 ELSE subs[s]]
                   /\ gst_cam_wrap' = [gst_cam_wrap EXCEPT
                                         !.lastImage = frames[Len(frames)]]
                   /\ raised' = ""
                   /\ UNCHANGED alive
    /\ sockets' = [i \in 1..Len(sockets) |->
                     IF sockets[i].st = "open"
                     THEN [sockets[i] EXCEPT !.flowing = TRUE] ELSE sockets[i]]
    /\ dicers' = [k \in 1..Len(dicers) |->
                    IF sockets[dicers[k].src].st = "open"
                    THEN NewDicer(dicers[k].src, TRUE) ELSE dicers[k]]
    /\ UNCHANGED << stdout, console, spawnCall,
                    variant, hostCatches, env, config, lc, gst_cam_server,
                    gst_cam_process, launch, stdoutSeen, calls, servers >>

\* SocketCamWrapper.getLastImage
getLastImage(wrap) == wrap.lastImage

\* LiveCam.getLastImage (first definition; the second defines none)
LiveCam_getLastImage == IF ~gst_cam_wrap.made THEN << >> ELSE getLastImage(gst_cam_wrap)

(***************************************************************************)
(* GstLaunch queries                                                       *)
(***************************************************************************)
NoLaunch == [op |-> "none", threw |-> "", val |-> Undef]

GetVersion ==
    /\ alive
    /\ LET r == getVersion(variant, env)
       IN  launch' = [op |-> "getVersion", threw |-> r.threw, val |-> r.val]
    /\ UNCHANGED << stdout, console, spawnCall,
                    variant, hostCatches, env, config, lc, gst_cam_server,
                    gst_cam_process, gst_cam_wrap, raised, alive, relayVars >>

IsAvailable ==
    /\ alive
    /\ LET r == isAvailable(variant, env)
       IN  launch' = [op |-> "isAvailable", threw |-> r.threw, val |-> r.val]
    /\ UNCHANGED << stdout, console, spawnCall,
                    variant, hostCatches, env, config, lc, gst_cam_server,
                    gst_cam_process, gst_cam_wrap, raised, alive, relayVars >>

(***************************************************************************)
(* Hosts and configurations                                                *)
(***************************************************************************)
\* A host on which both definitions find the tool, and the same host without it
EnvOk ==
    [platform |-> "darwin", pathSet |-> TRUE, dirs |-> <<TRUE>>, root64 |-> "unset",
     root32 |-> "unset", arch |-> "x64", darwinBin |-> TRUE, out |-> "version"]
EnvGone == [EnvOk EXCEPT !.dirs = <<FALSE>>, !.darwinBin = FALSE]
MainEnvs == {EnvOk, EnvGone}

\* config.start absent, a callback, and a value that is no function
MainConfigs == {[EmptyConfig EXCEPT !.start = st] : st \in {Undef, Fn, Num(42)}}

OptionKeys == {"gst_addr", "gst_port", "gst_tcp_addr", "gst_tcp_port",
               "ui_addr", "ui_port", "broadcast_addr", "broadcast_port"}

\* The value a caller supplies for a key, different for every key
Given(key) ==
    CASE key = "gst_addr" -> Str("10.0.0.1")
      [] key = "gst_tcp_addr" -> Str("10.0.0.2")
      [] key = "ui_addr" -> Str("10.0.0.3")
      [] key = "broadcast_addr" -> Str("10.0.0.4")
      [] key = "gst_port" -> Num(5001)
      [] key = "gst_tcp_port" -> Num(5002)
      [] key = "ui_port" -> Num(5003)
      [] OTHER -> Num(5004)

Opt(K, key) == IF key \in K THEN Given(key) ELSE Undef

\* The configurations that supply the keys K, each with a value of the right type
ConfigWith(K, st) ==
    [t |-> "object", gst_addr |-> Opt(K, "gst_addr"), gst_port |-> Opt(K, "gst_port"),
     gst_tcp_addr |-> Opt(K, "gst_tcp_addr"), gst_tcp_port |-> Opt(K, "gst_tcp_port"),
     ui_addr |-> Opt(K, "ui_addr"), ui_port |-> Opt(K, "ui_port"),
     broadcast_addr |-> Opt(K, "broadcast_addr"),
     broadcast_port |-> Opt(K, "broadcast_port"),
     start |-> st, webcam |-> UndefWebcam]

OptionConfigs == {ConfigWith(K, st) : K \in SUBSET OptionKeys, st \in {Undef, Fn}}

FnWebcam == [UndefWebcam EXCEPT !.t = "function"]

\* Type-correct webcam configurations
Webcams ==
    [t : {"object"}, fake : {Undef, Bool(TRUE), Bool(FALSE)},
     width : {Undef, Num(0), Num(-1), Num(640)},
     height : {Undef, Num(0), Num(-1), Num(480)},
     framerate : {Undef, Num(-1), Num(15)},
     grayscale : {Undef, Bool(TRUE), Bool(FALSE)}, deviceIndex : {Undef}]

\* Webcam configurations with one field of the wrong type
WrongWebcams ==
    { [EmptyWebcam EXCEPT !.fake = Str("yes")],
      [EmptyWebcam EXCEPT !.width = Str("wide")],
      [EmptyWebcam EXCEPT !.height = Bool(TRUE)],
      [EmptyWebcam EXCEPT !.framerate = Str("fast")],
      [EmptyWebcam EXCEPT !.grayscale = Num(1)] }

\* Configurations with one option of the wrong type
WrongConfigs ==
    { [EmptyConfig EXCEPT !.start = Num(42)],
      [EmptyConfig EXCEPT !.start = Str("go")],
      [EmptyConfig EXCEPT !.broadcast_port = Str("http")],
      [EmptyConfig EXCEPT !.broadcast_addr = Num(7)],
      [EmptyConfig EXCEPT !.ui_port = Str("www")],
      [EmptyConfig EXCEPT !.ui_addr = Num(8)],
      [EmptyConfig EXCEPT !.gst_port = Bool(TRUE)],
      [EmptyConfig EXCEPT !.gst_addr = Num(9)],
      [EmptyConfig EXCEPT !.webcam = FnWebcam] }
    \cup {[EmptyConfig EXCEPT !.webcam = w] : w \in WrongWebcams}

UndefConfig == [EmptyConfig EXCEPT !.t = "undefined"]

BuildInputs ==
    ((OptionConfigs \cup WrongConfigs \cup {UndefConfig}
         \cup {[EmptyConfig EXCEPT !.webcam = w] : w \in Webcams}) \X {EnvOk})
    \cup ({EmptyConfig} \X AllEnvs)

\* Pipeline strings handed to spawnPipeline by a direct caller
MaxPipelineTokens == 3
Pipelines == SeqsUpTo({SP, "a", "b"}, MaxPipelineTokens)

\* A caller runs ( new GstLaunch() ).spawnPipeline( pipeline ); GstLaunch keeps
\* no state between calls, so one call is followed per behaviour
SpawnPipeline(pipeline) ==
    /\ alive
    /\ ~spawnCall.called
    /\ LET r == spawnPipeline(variant, env, pipeline)
       IN  spawnCall' = [called |-> TRUE, threw |-> r.threw, pipeline |-> pipeline,
                         children |-> IF r.threw = "" THEN <<r.val>> ELSE << >>,
                         returned |-> r.val]
    /\ UNCHANGED << stdout, console, variant, hostCatches, env, config, lc,
                    gst_cam_server, gst_cam_process, gst_cam_wrap, launch, raised,
                    alive, relayVars >>

(***************************************************************************)
(* Specifications                                                          *)
(***************************************************************************)
NoSub == [st |-> "away", server |-> 0, joined |-> 0, inbox |-> << >>]

InitRest ==
    /\ lc = NoInstance
    /\ gst_cam_server = NoServer
    /\ gst_cam_process = NoProcess
    /\ gst_cam_wrap = NoWrap
    /\ launch = NoLaunch
    /\ raised = ""
    /\ alive = TRUE
    /\ stdoutSeen = << >>
    /\ calls = << >>
    /\ sockets = << >>
    /\ servers = << >>
    /\ dicers = << >>
    /\ subs = [s \in Subscribers |-> NoSub]
    /\ published = << >>
    /\ source = [parts |-> << >>, cur |-> << >>]
    /\ stdout = << >>
    /\ console = ""
    /\ spawnCall = NoSpawn

Init ==
    /\ variant \in {1, 2}
    /\ hostCatches \in BOOLEAN
    /\ env \in MainEnvs
    /\ config \in MainConfigs
    /\ InitRest

\* The tool is removed after the instance was constructed, before broadcast()
EnvChange ==
    /\ alive
    /\ lc.st = "ok"
    /\ ~gst_cam_wrap.made
    /\ env = EnvOk
    /\ env' = EnvGone
    /\ UNCHANGED << stdout, console, spawnCall, variant, hostCatches, config, lc,
                    gst_cam_server, gst_cam_process, gst_cam_wrap, launch, raised,
                    alive, relayVars >>

Next ==
    \/ Construct
    \/ EnvChange
    \/ Broadcast
    \/ \E i \in 1..MaxStdoutChunks : SocketClose(i)
    \/ \E i \in 1..MaxStdoutChunks : SocketFail(i)
    \/ \E data \in StdoutChunks : StdoutData(data)
    \/ \E i \in 1..MaxStdoutChunks : SocketConnect(i)
    \/ \E k \in 1..MaxStdoutChunks : ServerError(k)
    \/ \E n \in 1..MaxDataLen : PartData(n)
    \/ PartEnd
    \/ \E s \in Subscribers : SubConnect(s)

Spec == Init /\ [][Next]_vars

\* Construction and launch over all configurations and hosts
InitBuild ==
    /\ variant \in {1, 2}
    /\ hostCatches = FALSE
    /\ \E input \in BuildInputs : config = input[1] /\ env = input[2]
    /\ InitRest

NextBuild ==
    \/ GetVersion
    \/ IsAvailable
    \/ Construct
    \/ Broadcast

SpecBuild == InitBuild /\ [][NextBuild]_vars

\* The orchestrator and the events of its child; every pending callback runs
NextChild ==
    \/ Construct
    \/ Broadcast
    \/ \E data \in StdoutChunks : StdoutData(data)
    \/ StderrData
    \/ ProcessError
    \/ ProcessExit

SpecChild == Init /\ [][NextChild]_vars /\ WF_vars(NextChild)

\* The relay when the child's output is the one chunk that announces PLAYING
NextRelay ==
    \/ Construct
    \/ Broadcast
    \/ stdoutSeen = << >> /\ StdoutData(Marker)
    \/ SocketConnect(1)
    \/ SocketClose(1)
    \/ \E n \in 1..MaxDataLen : PartData(n)
    \/ PartEnd
    \/ \E s \in Subscribers : SubConnect(s)

SpecRelay == Init /\ [][NextRelay]_vars

(***************************************************************************)
(* C1..C4: relay and start-up                                              *)
(***************************************************************************)
\* C1: once the relay is connected, a source stream of N complete parts gives
\* exactly N "image" events, in part order, the k-th carrying the base64 text of
\* all the bytes of part k, and getLastImage() then returns the text of part N.
C1_OneEventPerPart ==
    /\ published = [k \in 1..Len(source.parts) |-> ToBase64(source.parts[k])]
    /\ source.parts # << >> =>
          getLastImage(gst_cam_wrap) = ToBase64(source.parts[Len(source.parts)])

\* C1 on the second definition alone
C1_SecondDefinition == variant = 2 => C1_OneEventPerPart

\* C2: a subscriber is sent a frame only if it was connected when the frame's part
\* completed: its events are frames published after it connected, each once, in
\* order and with the payload published; nothing is replayed on connect.
C2_NoBacklog ==
    \A s \in Subscribers :
        LET inbox == subs[s].inbox
        IN  /\ \A j \in 1..Len(inbox) :
                  /\ inbox[j].n > subs[s].joined
                  /\ inbox[j].n <= Len(published)
                  /\ inbox[j].data = published[inbox[j].n]
            /\ \A j \in 1..(Len(inbox) - 1) : inbox[j].n < inbox[j + 1].n

\* C2, the case: one subscriber saw frames 1 and 2, the other connected between
\* them and holds frame 2 alone
C2_Witness ==
    /\ Len(published) = 2
    /\ subs["s1"].joined = 0
    /\ Len(subs["s1"].inbox) = 2
    /\ subs["s2"].joined = 1
    /\ subs["s2"].inbox = <<[n |-> 2, data |-> published[2]]>>

\* C2 with delivery: a connected subscriber holds every frame published since
C2_Delivered ==
    \A s \in Subscribers :
        subs[s].st = "on" =>
            subs[s].inbox = [j \in 1..(Len(published) - subs[s].joined) |->
                               [n |-> subs[s].joined + j,
                                data |-> published[subs[s].joined + j]]]

\* C3: getLastImage() is the empty string while no part has completed, and
\* afterwards the payload of the latest "image" event; every completed part
\* overwrites the slot.
C3_LastImageIsLatest ==
    /\ source.parts = << >> => LiveCam_getLastImage = << >>
    /\ source.parts # << >> =>
          /\ Len(published) >= Len(source.parts)
          /\ LiveCam_getLastImage = published[Len(published)]

C3_SecondDefinition == variant = 2 => C3_LastImageIsLatest

\* The calls the claim expects for the stdout chunks seen: for each chunk with
\* the marker, wrap() and then the start callback if one is configured
RECURSIVE ExpectedCalls(_, _)
ExpectedCalls(seen, callback) ==
    IF seen = << >> THEN << >>
    ELSE (IF Head(seen) THEN <<"wrap">> \o callback ELSE << >>)
             \o ExpectedCalls(Tail(seen), callback)

\* C4: after broadcast() the relay is not started and the start callback is not
\* invoked before a stdout chunk with "Setting pipeline to PLAYING" arrives; when
\* one arrives the relay is started and then the callback, if configured, is
\* invoked.
C4_StartAfterMarker ==
    /\ calls = ExpectedCalls(stdoutSeen,
                             IF lc.start.t = "function" THEN <<"start">> ELSE << >>)
    /\ Len(sockets) = Len(SelectSeq(stdoutSeen, LAMBDA m : m))

C4_SecondDefinition == variant = 2 => C4_StartAfterMarker

(***************************************************************************)
(* C5..C10: discovery, construction and the pipeline string                *)
(***************************************************************************)
\* C5: isAvailable() is true exactly when the version query yields a version
\* string, and false otherwise without throwing; new LiveCam succeeds only when a
\* version string is found and otherwise raises "Unable to broadcast.".
C5_AvailableIffVersion ==
    LET found == getVersion(variant, env).val.t = "string"
    IN  /\ launch.op = "isAvailable" =>
              /\ launch.threw = ""
              /\ launch.val = Bool(found)
        /\ lc.st = "ok" => found
        /\ lc.st = "threw" =>
              ~found /\ raised = "Error: Unable to broadcast."

\* C5, the case: the tool is found and runs, its output names GStreamer without a
\* version, isAvailable() returned false and the constructor threw
C5_Witness ==
    /\ getPath(variant, env).val.t = "string"
    /\ env.out = "bare"
    /\ launch.op = "isAvailable"
    /\ launch.val = Bool(FALSE)
    /\ lc.st = "threw"

\* C6: a LiveCam is constructed only from a configuration whose supplied options
\* have the documented types, and a GstLiveCamServer only from webcam options of
\* the documented types; a wrong type fails an assertion instead.
C6_WrongTypeRejected ==
    LET Is(x, type) == x = Undef \/ x.t = type
    IN  /\ lc.st = "ok" =>
              /\ config.t \in {"object", "undefined"}
              /\ Is(config.start, "function")
              /\ \A k \in {"gst_port", "gst_tcp_port", "ui_port", "broadcast_port"} :
                    Is(config[k], "number")
              /\ \A k \in {"gst_addr", "gst_tcp_addr", "ui_addr", "broadcast_addr"} :
                    Is(config[k], "string")
              /\ config.webcam.t \in {"object", "undefined"}
        /\ gst_cam_server.made =>
              /\ \A k \in {"fake", "grayscale"} : Is(config.webcam[k], "boolean")
              /\ \A k \in {"width", "height", "framerate"} :
                    Is(config.webcam[k], "number")

\* C7: getVersion() never throws, whatever the host: it returns undefined when the
\* tool is not found, cannot be run or prints no version, and a string only when
\* the output has a version.
C7_GetVersionNeverThrows ==
    /\ launch.threw = ""
    /\ launch.op = "getVersion" =>
          /\ launch.val.t \in {"undefined", "string"}
          /\ launch.val.t = "string" =>
                env.out = "version" /\ getPath(variant, env).val.t = "string"
          /\ env.out # "version" => launch.val = Undef

\* C7, the case: the tool is found and its output names GStreamer without a
\* version number; getVersion() returned undefined
C7_Witness ==
    /\ launch.op = "getVersion"
    /\ getPath(variant, env).val.t = "string"
    /\ env.out = "bare"
    /\ launch.val = Undef

\* The command string the claim describes for a server and a sink
C8_Command(srv, addr, port) ==
    (IF srv.fake = Bool(TRUE) THEN <<"videotestsrc">>
     ELSE IF variant = 1 THEN <<"v4l2src", " ", "!", " ", "decodebin">>
     ELSE <<"-v", " ", "ksvideosrc", " ", "do-stats=TRUE">>)
    \o (IF GreaterThanZero(srv.width) \/ GreaterThanZero(srv.height)
        THEN <<" ", "!", " ", "videoscale", " ", "!", " ",
               "video/x-raw,width=" \o ToString(srv.width.n)
                   \o ",height=" \o ToString(srv.height.n)>>
        ELSE << >>)
    \o (IF GreaterThanZero(srv.framerate)
        THEN <<" ", "!", " ", "videorate", " ", "!", " ",
               "video/x-raw,framerate=" \o ToString(srv.framerate.n) \o "/1">>
        ELSE << >>)
    \o (IF srv.grayscale = Bool(TRUE)
        THEN <<" ", "!", " ", "videobalance", " ", "saturation=0.0", " ", "!", " ",
               "videoconvert">>
        ELSE << >>)
    \o <<" ", "!", " ", "jpegenc", " ", "!", " ", "multipartmux", " ", " ",
         "boundary=\"--videoboundary\"", " ", "!", " ", "tcpserversink", " ",
         "host=" \o addr.s, " ", "port=" \o ToString(port.n)>>

\* {fake: true, width: 640, height: 480, framerate: 15, grayscale: false}
C8_Scenario ==
    [t |-> "object", fake |-> Bool(TRUE), width |-> Num(640), height |-> Num(480),
     framerate |-> Num(15), grayscale |-> Bool(FALSE), deviceIndex |-> Undef]

C9_Src(webcam) == GstLiveCamServer(variant, webcam).val.gst_video_src

\* C9: the source string depends on the five webcam fields only; setting
\* grayscale adds exactly the one desaturate clause at the end, setting fake
\* swaps the source clause alone, and start() leaves the stored string as built.
C9_FlagsIndependent ==
    gst_cam_server.made /\ config \notin WrongConfigs =>
        LET w == lc.webcam
            gray == C9_Src([w EXCEPT !.grayscale = Bool(TRUE)])
            colour == C9_Src([w EXCEPT !.grayscale = Bool(FALSE)])
            test == C9_Src([w EXCEPT !.fake = Bool(TRUE)])
            live == C9_Src([w EXCEPT !.fake = Bool(FALSE)])
        IN  /\ gst_cam_server.gst_video_src = C9_Src(w)
            /\ gst_cam_server.gst_video_src \in {gray, colour}
            /\ gst_cam_server.gst_video_src \in {test, live}
            /\ gray = colour \o GrayClause
            /\ \A j \in 1..Len(colour) : colour[j] # "videobalance"
            /\ test[1] = "videotestsrc"
            /\ \E n \in 1..Len(live) :
                  /\ SubSeq(live, 1, n) = SourceClause(variant, Bool(FALSE))
                  /\ SubSeq(live, n + 1, Len(live)) = Tail(test)

\* C9, the case: a grayscale camera with a rate clause was launched
C9_Witness ==
    /\ gst_cam_process.spawned
    /\ config.webcam.grayscale = Bool(TRUE)
    /\ config.webcam.framerate = Num(15)
    /\ config.webcam.fake = Bool(FALSE)

\* C10: every documented option is honoured when supplied and defaulted when not:
\* gst_tcp_addr, ui_addr, broadcast_addr to 127.0.0.1, gst_tcp_port to 10000,
\* ui_port to 11000, broadcast_port to 12000.
C10_OptionsHonoured ==
    lc.st = "ok" =>
        /\ lc.gst_tcp_addr = Or(Get(config, "gst_tcp_addr"), Str("127.0.0.1"))
        /\ lc.gst_tcp_port = Or(Get(config, "gst_tcp_port"), Num(10000))
        /\ lc.ui_addr = Or(Get(config, "ui_addr"), Str("127.0.0.1"))
        /\ lc.ui_port = Or(Get(config, "ui_port"), Num(11000))
        /\ lc.broadcast_addr = Or(Get(config, "broadcast_addr"), Str("127.0.0.1"))
        /\ lc.broadcast_port = Or(Get(config, "broadcast_port"), Num(12000))

\* C10 for the four options of the browser side only
C10_UiOptions ==
    lc.st = "ok" =>
        /\ lc.ui_addr = Or(Get(config, "ui_addr"), Str("127.0.0.1"))
        /\ lc.ui_port = Or(Get(config, "ui_port"), Num(11000))
        /\ lc.broadcast_addr = Or(Get(config, "broadcast_addr"), Str("127.0.0.1"))
        /\ lc.broadcast_port = Or(Get(config, "broadcast_port"), Num(12000))

\* Hosts without the Windows installation roots
SpawnEnvs ==
    {e \in AllEnvs : /\ e.platform \in {"linux", "darwin"}
                     /\ e.root64 = "unset" /\ e.root32 = "unset" /\ e.arch = "x64"}

\* GstLaunch alone
InitSpawn ==
    /\ variant \in {1, 2}
    /\ hostCatches = FALSE
    /\ env \in SpawnEnvs
    /\ config = EmptyConfig
    /\ InitRest

NextSpawn ==
    \/ GetVersion
    \/ IsAvailable
    \/ \E pipeline \in Pipelines : SpawnPipeline(pipeline)

SpecSpawn == InitSpawn /\ [][NextSpawn]_vars

(***************************************************************************)
(* C11..C16                                                                *)
(***************************************************************************)
\* The characters of a token sequence, and words joined by single spaces
RECURSIVE C11_Flat(_)
C11_Flat(str) == IF str = << >> THEN "" ELSE Head(str) \o C11_Flat(Tail(str))
RECURSIVE C11_Join(_)
C11_Join(words) ==
    IF Len(words) = 1 THEN words[1]
    ELSE words[1] \o " " \o C11_Join(Tail(words))

\* C11: spawnPipeline(pipeline) throws and starts no child when the tool is
\* unavailable at the call; when it is available it starts exactly one child, whose
\* arguments are the pipeline split at every single space (one more argument than
\* spaces, empty between consecutive spaces), and returns that child's handle.
C11_SpawnSplitsOnSpaces ==
    spawnCall.called =>
        LET available == getVersion(variant, env).val.t = "string"
            spaces == Len(SelectSeq(spawnCall.pipeline, LAMBDA tok : tok = " "))
        IN  /\ ~available => spawnCall.threw # "" /\ spawnCall.children = << >>
            /\ available =>
                  /\ spawnCall.threw = ""
                  /\ Len(spawnCall.children) = 1
                  /\ spawnCall.returned = spawnCall.children[1]
                  /\ spawnCall.returned.file = getPath(variant, env).val
                  /\ Len(spawnCall.returned.argv) = spaces + 1
                  /\ C11_Join(spawnCall.returned.argv) = C11_Flat(spawnCall.pipeline)

\* C11, the case: a pipeline with two consecutive spaces was spawned
C11_Witness ==
    /\ spawnCall.called
    /\ spawnCall.pipeline = <<"a", " ", " ">>
    /\ spawnCall.children = <<spawnCall.returned>>
    /\ spawnCall.returned.argv = <<"a", "", "">>

\* C12: once a source connection of the relay has closed, the relay only logs: no
\* new source connection is made, no connection becomes open, no further "image"
\* event is published and subscribers are sent nothing, not even an end-of-stream
\* notification.
C12_ForwardOnly ==
    [][(\E i \in 1..Len(sockets) : sockets[i].st = "closed") =>
           /\ Len(sockets') = Len(sockets)
           /\ \A i \in 1..Len(sockets) :
                 sockets'[i].st = "open" => sockets[i].st = "open"
           /\ published' = published
           /\ \A s \in Subscribers : subs'[s].inbox = subs[s].inbox]_vars

\* C13: a step in which the 'error' or 'exit' listener of the child writes its
\* line changes nothing else: the process handle, the relay object and its latest
\* frame, the server, the sockets and push servers, and the log of wrap() and
\* start() invocations stay as they were.
C13_ChildEventsOnlyLog ==
    [][console' # console
           /\ console' \in {"Webcam server error", "Webcam server exited"} =>
           UNCHANGED << lc, gst_cam_process, gst_cam_server, gst_cam_wrap, calls,
                        sockets, servers, dicers, subs, published, stdoutSeen,
                        alive >>]_vars

\* C13, the case: the child exited after the relay was started
C13_Witness ==
    /\ console = "Webcam server exited"
    /\ gst_cam_process.spawned
    /\ calls # << >>
    /\ alive

\* C14: once construction has succeeded no later failure is raised: broadcast()
\* and every callback return normally, whatever fails afterwards (the tool
\* removed before broadcast(), the child failing, the source connection refused or
\* closed, a publish on a completed part), and the process keeps running.
C14_NoFailureAfterConstruction == lc.st = "ok" => raised = "" /\ alive

\* The number of times a call is in the log
C15_Count(name) == Len(SelectSeq(calls, LAMBDA c : c = name))

\* C15: for one broadcast() the relay is started at most once: wrap() is invoked
\* at most once, there is at most one source connection and at most one push
\* server, and the start callback is invoked at most once.
C15_StartedAtMostOnce ==
    /\ C15_Count("wrap") <= 1
    /\ Len(sockets) <= 1
    /\ Len(servers) <= 1
    /\ C15_Count("start") <= 1

\* C16: if the child's standard output, as one stream, contains "Setting
\* pipeline to PLAYING", the relay is eventually started, however the stream was
\* cut into chunks.
C16_StartedWhenMarkerInStream ==
    Includes(stdout, Marker) ~> (\E j \in 1..Len(calls) : calls[j] = "wrap")

====
